---- MODULE Spec2Model ----
(***************************************************************************)
(* Timeline Trace (Local): format dispatch, the format parsers, the       *)
(* coordinate decoder, the day index and the day navigator of src/app.js,  *)
(* and the cache handling of the service worker of src/sw.js.              *)
(*                                                                         *)
(* Representation of JavaScript values.  Every value is a record tagged by *)
(* its field t:                                                            *)
(*   undefined, null, boolean, number (fin = FALSE with v = 0 is NaN, with *)
(*   v = 1 or -1 an infinity), string, array, object, date.                *)
(* A string is described by what it spells (field c):                      *)
(*   "dec"   the decimal numeral of the integer n,                         *)
(*   "iso"   the ISO-8601 date-time text of the instant n,                 *)
(*   "coord" the coordinate text "<lat>, <lng>" of the decimal numerals    *)
(*           lat and lng, with or without white space,                     *)
(*   "chars" a non-empty coordinate text spelled out character by          *)
(*           character (field cs),                                         *)
(*   "empty" the empty string, "space" white space only,                   *)
(*   "text"  any other text (field s) holding no digit, no comma and no    *)
(*           month or weekday name, with no white space at either end,     *)
(*   "padded" the "text" s (field s) with white space before and after it, *)
(*   "stringof"  what String(v) spells for the value v (field of) that is  *)
(*           not a string: "true", "NaN", "[object Object]", "1,2", ...,   *)
(*   "titlecase" the string s (field of) with "_" replaced by " ", put in  *)
(*           lower case and the first letter of every word in upper case.  *)
(* Instants are counted in hours since 1970-01-01T00:00 (one hour is       *)
(* 3600000 of the program's milliseconds) and the local time zone is UTC.  *)
(* Coordinates are kept in the fixed-point unit of the export, 1e-7 degree.*)
(* An item carries kind, start, end, point, path and title; its other      *)
(* display fields (subtitle, emoji, distance, activity type) are left out. *)
(* The texts of the program that are not ASCII are named by the line that  *)
(* holds them: TextStr("app.js:161") is the literal of line 161.           *)
(***************************************************************************)
EXTENDS Integers, Sequences, FiniteSets, Bags, TLC

VARIABLES
  items,          \* state.items
  sortedDays,     \* state.sortedDays
  dayKeySet,      \* state.dayKeySet
  selectedDay,    \* state.selectedDay
  detectedFormat, \* state.detectedFormat
  monthAnchor,    \* state.monthAnchor
  prevDisabled,   \* $("prevBtn").disabled
  nextDisabled,   \* $("nextBtn").disabled
  cells,          \* dates of the calendar cells that carry a click listener
  pending,        \* bag of the texts of the file reads in flight
  toast,          \* message of the last showToast
  input,          \* argument of the function applied (function specifications)
  output,         \* its result
  caches,         \* keys of the origin's CacheStorage (src/sw.js)
  workers         \* per scope, the service worker registered there

vars == <<items, sortedDays, dayKeySet, selectedDay, detectedFormat,
          monthAnchor, prevDisabled, nextDisabled, cells, pending, toast,
          input, output, caches, workers>>

appVars == <<items, sortedDays, dayKeySet, selectedDay, detectedFormat,
             monthAnchor, prevDisabled, nextDisabled, cells, pending,
             toast>>

fnVars == <<input, output>>

swVars == <<caches, workers>>

----------------------------------------------------------------------------
(* JavaScript values *)

Undef == [t |-> "undefined"]
Null == [t |-> "null"]
Bool(b) == [t |-> "boolean", v |-> b]
Num(n) == [t |-> "number", fin |-> TRUE, v |-> n]
NaN == [t |-> "number", fin |-> FALSE, v |-> 0]
\* Infinity (sign = 1) and -Infinity (sign = -1); JSON.parse gives them for
\* a numeral beyond the range of a double, such as 1e999
Infinity(sign) == [t |-> "number", fin |-> FALSE, v |-> sign]
DecStr(n) == [t |-> "string", c |-> "dec", n |-> n, s |-> ""]
IsoStr(n) == [t |-> "string", c |-> "iso", n |-> n, s |-> ""]
EmptyStr == [t |-> "string", c |-> "empty", n |-> 0, s |-> ""]
SpaceStr == [t |-> "string", c |-> "space", n |-> 0, s |-> " "]
CoordStr(lat, lng) == [t |-> "string", c |-> "coord", lat |-> lat, lng |-> lng]
TextStr(s) == [t |-> "string", c |-> "text", n |-> 0, s |-> s]
PaddedStr(s) == [t |-> "string", c |-> "padded", n |-> 0, s |-> s]
Chars(cs) == [t |-> "string", c |-> "chars", cs |-> cs]
Arr(seq) == [t |-> "array", v |-> seq]
Obj(f) == [t |-> "object", f |-> f]
DateOf(h) == [t |-> "date", v |-> h]

\* v.k and v?.k on a value that is not null or undefined
Get(v, k) == IF v.t = "object" /\ k \in DOMAIN v.f THEN v.f[k] ELSE Undef

\* a ?? b
Coalesce(a, b) == IF a.t \in {"undefined", "null"} THEN b ELSE a

\* truthiness: if(v), v && ..., v || ...
Truthy(v) ==
  CASE v.t \in {"undefined", "null"} -> FALSE
    [] v.t = "boolean" -> v.v
    [] v.t = "number" -> v.v # 0
    [] v.t = "string" -> v.c # "empty"
    [] OTHER -> TRUE

\* Number(v), where the conversion does not throw (see CoercionThrows)
RECURSIVE ToNumber(_)
ToNumber(v) ==
  CASE v.t = "undefined" -> NaN
    [] v.t = "null" -> Num(0)
    [] v.t = "boolean" -> IF v.v THEN Num(1) ELSE Num(0)
    [] v.t = "number" -> v
    [] v.t = "string" ->
         (CASE v.c = "dec" -> Num(v.n)
            [] v.c \in {"empty", "space"} -> Num(0)
            [] v.c \in {"iso", "coord", "text", "padded"} -> NaN)
    [] v.t = "array" ->
         (IF Len(v.v) = 0 THEN Num(0)
          ELSE IF Len(v.v) > 1 THEN NaN
          ELSE IF v.v[1].t \in {"undefined", "null"} THEN Num(0)
          ELSE IF v.v[1].t \in {"number", "string", "array"}
               THEN ToNumber(v.v[1])
          ELSE NaN)
    [] OTHER -> NaN

\* Number.isFinite(n)
IsFinite(n) == n.t = "number" /\ n.fin

\* String(v), where the conversion does not throw (see CoercionThrows)
RECURSIVE String(_)
String(v) ==
  CASE v.t = "string" -> v
    [] v.t = "number" /\ v.fin -> DecStr(v.v)
    [] v.t = "array" /\ Len(v.v) = 0 -> EmptyStr
    [] v.t = "array" /\ Len(v.v) = 1 ->
         (IF v.v[1].t \in {"undefined", "null"} THEN EmptyStr
          ELSE String(v.v[1]))
    [] OTHER -> [t |-> "string", c |-> "stringof", of |-> v]

\* s.replaceAll("_"," ").toLowerCase().replace(/\b\w/g, c=>c.toUpperCase())
TitleCase(s) ==
  IF s.c \in {"dec", "empty", "space"} THEN s
  ELSE [t |-> "string", c |-> "titlecase", of |-> s]

----------------------------------------------------------------------------
(* Date: the calendar of the built-in Date object (proleptic Gregorian) *)

HoursPerDay == 24

DaysFromCivil(y, m, d) ==
  LET yy == IF m <= 2 THEN y - 1 ELSE y
      era == yy \div 400
      yoe == yy - era * 400
      mp == IF m > 2 THEN m - 3 ELSE m + 9
      doy == (153 * mp + 2) \div 5 + d - 1
      doe == yoe * 365 + yoe \div 4 - yoe \div 100 + doy
  IN era * 146097 + doe - 719468

CivilFromDays(z0) ==
  LET z == z0 + 719468
      era == z \div 146097
      doe == z - era * 146097
      yoe == (doe - doe \div 1460 + doe \div 36524 - doe \div 146096) \div 365
      doy == doe - (365 * yoe + yoe \div 4 - yoe \div 100)
      mp == (5 * doy + 2) \div 153
      d == doy - (153 * mp + 2) \div 5 + 1
      m == IF mp < 10 THEN mp + 3 ELSE mp - 9
      y == yoe + era * 400 + (IF m <= 2 THEN 1 ELSE 0)
  IN [y |-> y, m |-> m, d |-> d]

getFullYear(d) == CivilFromDays(d.v \div HoursPerDay).y
getMonth(d) == CivilFromDays(d.v \div HoursPerDay).m - 1
getDate(d) == CivilFromDays(d.v \div HoursPerDay).d
getTime(d) == d.v

\* new Date(y, m, d): a year 0..99 means 1900 + y; month and day overflow
\* carry into the year and the month.
NewDate(y, m, d) ==
  LET yr == IF y >= 0 /\ y <= 99 THEN 1900 + y ELSE y
      ym == yr + m \div 12
      mn == m % 12
  IN DateOf((DaysFromCivil(ym, mn + 1, 1) + d - 1) * HoursPerDay)

\* a % b of JavaScript (the sign of the dividend), b > 0
JsRem(a, b) == IF a >= 0 THEN a % b ELSE 0 - ((0 - a) % b)

dayKey(d) == getFullYear(d) * 10000 + (getMonth(d) + 1) * 100 + getDate(d)

startOfDay(d) == NewDate(getFullYear(d), getMonth(d), getDate(d))

----------------------------------------------------------------------------
(* Decoders *)

\* new Date(s) for a string s; an invalid Date is NaN
DateParse(s) ==
  CASE s.c = "iso" -> DateOf(s.n)
    [] s.c \in {"empty", "space", "text", "padded"} -> NaN

\* the characters of a coordinate text; the three that are not ASCII are
\* named
DegreeSign == "deg"
NotSign == "not"
InfinitySign == "inf"
Digits == {"0", "1", "2", "3", "4", "5", "6", "7", "8", "9"}

DigitValue(c) ==
  CASE c = "0" -> 0 [] c = "1" -> 1 [] c = "2" -> 2 [] c = "3" -> 3
    [] c = "4" -> 4 [] c = "5" -> 5 [] c = "6" -> 6 [] c = "7" -> 7
    [] c = "8" -> 8 [] c = "9" -> 9

\* the value of a run of decimal digits
RECURSIVE DigitsValue(_)
DigitsValue(ds) ==
  IF Len(ds) = 0 THEN 0
  ELSE DigitsValue(SubSeq(ds, 1, Len(ds) - 1)) * 10 + DigitValue(ds[Len(ds)])

\* 10^n
RECURSIVE Pow10(_)
Pow10(n) == IF n = 0 THEN 1 ELSE 10 * Pow10(n - 1)

\* the value of the fraction digits fs in units of 1e-7 (digits past the
\* seventh are below the unit)
FractionE7(fs) ==
  LET ds == SubSeq(fs, 1, IF Len(fs) < 7 THEN Len(fs) ELSE 7)
  IN DigitsValue(ds) * Pow10(7 - Len(ds))

AllDigits(cs) == \A i \in 1..Len(cs) : cs[i] \in Digits

\* the least and the greatest element of a non-empty set of integers
Least(S) == CHOOSE i \in S : \A j \in S : i <= j
Greatest(S) == CHOOSE i \in S : \A j \in S : j <= i

\* the positions of character c in text
PositionsOf(text, c) == {i \in 1..Len(text) : text[i] = c}

\* Number(body) for an unsigned text: digits, digits with a fraction, a
\* bare fraction, or NaN
UnsignedToNumber(body) ==
  LET dots == PositionsOf(body, ".")
      ip == IF dots = {} THEN body ELSE SubSeq(body, 1, Least(dots) - 1)
      fp == IF dots = {} THEN <<>>
            ELSE SubSeq(body, Least(dots) + 1, Len(body))
  IN IF AllDigits(ip) /\ AllDigits(fp) /\ Len(ip) + Len(fp) >= 1
     THEN Num(DigitsValue(ip) * Pow10(7) + FractionE7(fp))
     ELSE NaN

\* Number(cs) for a text without white space: the empty text is 0, a
\* signed decimal literal is its value (in units of 1e-7), any other
\* text over the characters above is NaN
StringToNumber(cs) ==
  IF Len(cs) = 0 THEN Num(0)
  ELSE IF cs[1] = "+" THEN UnsignedToNumber(Tail(cs))
  ELSE IF cs[1] = "-"
       THEN (IF IsFinite(UnsignedToNumber(Tail(cs)))
             THEN Num(0 - UnsignedToNumber(Tail(cs)).v) ELSE NaN)
  ELSE UnsignedToNumber(cs)

\* s.replace(/[<U+00AC><U+221E>\s]/g, "")
Cleaned(cs) ==
  LET Kept(c) == c \notin {NotSign, InfinitySign, " "}
  IN SelectSeq(cs, Kept)

\* cleaned.split(","), cut after its second part
SplitComma(text) ==
  LET commas == PositionsOf(text, ",")
      later == commas \ {Least(commas)}
  IN IF commas = {} THEN Arr(<<text>>)
     ELSE Arr(<<SubSeq(text, 1, Least(commas) - 1),
                SubSeq(text, Least(commas) + 1,
                       IF later = {} THEN Len(text) ELSE Least(later) - 1)>>)

\* the longest run of digits of text that starts at position i
DigitRun(text, i) ==
  IF i > Len(text) THEN 0
  ELSE Greatest({k \in 0..(Len(text) + 1 - i) :
                   \A j \in i..(i + k - 1) : text[j] \in Digits})

(* cleaned.match(/(-?\d+(?:\.\d+)?).*(-?\d+(?:\.\d+)?)/): the leftmost     *)
(* match, each quantifier taking the most characters that still lets the   *)
(* rest of the pattern match.                                              *)

\* -? at position i: 1 if it takes a minus sign, else 0
Minus(text, i) == IF i <= Len(text) /\ text[i] = "-" THEN 1 ELSE 0

\* .*(-?\d+(?:\.\d+)?) matches the text after position a
RestMatches(text, a) == \E j \in (a + 1)..Len(text) : text[j] \in Digits

\* the lengths \d+ of group 1 can take when the match starts at p
Lengths(text, p) ==
  {k \in 1..DigitRun(text, p + Minus(text, p)) :
     RestMatches(text, p + Minus(text, p) + k - 1)}

\* the positions where a match can start
MatchStarts(text) == {p \in 1..Len(text) : Lengths(text, p) # {}}

\* the lengths \d+ of (?:\.\d+)? of group 1 can take when the digits of
\* group 1 end before position d
FractionLengths(text, d) ==
  {f \in 1..DigitRun(text, d + 1) :
     d <= Len(text) /\ text[d] = "." /\ RestMatches(text, d + f)}

\* where group 1 ends when the match starts at p
Group1End(text, p) ==
  LET d == p + Minus(text, p) + Greatest(Lengths(text, p))
  IN IF FractionLengths(text, d) = {} THEN d - 1
     ELSE d + Greatest(FractionLengths(text, d))

\* where group 2 starts when group 1 ends at a: .* takes all it can
Group2Start(text, a) ==
  Greatest({i \in (a + 1)..Len(text) :
              DigitRun(text, i + Minus(text, i)) >= 1})

\* where a whole numeral -?\d+(?:\.\d+)? that starts at b ends
NumeralEnd(text, b) ==
  LET d == b + Minus(text, b) + DigitRun(text, b + Minus(text, b))
  IN IF d <= Len(text) /\ text[d] = "." /\ DigitRun(text, d + 1) >= 1
     THEN d + DigitRun(text, d + 1)
     ELSE d - 1

\* the two groups of the match, or null
RegexMatch(text) ==
  IF MatchStarts(text) = {} THEN Null
  ELSE LET p == Least(MatchStarts(text))
           b == Group2Start(text, Group1End(text, p))
       IN Arr(<<SubSeq(text, p, Group1End(text, p)),
                SubSeq(text, b, NumeralEnd(text, b))>>)

\* parseLatLngString on a text spelled out character by character
parseLatLngChars(cs) ==
  LET cleaned == Cleaned(cs)
      parts == SplitComma(cleaned)
      lat == StringToNumber(parts.v[1])
      lng == StringToNumber(parts.v[2])
      m == RegexMatch(cleaned)
      mlat == StringToNumber(m.v[1])
      mlng == StringToNumber(m.v[2])
  IN IF Len(parts.v) >= 2 /\ IsFinite(lat) /\ IsFinite(lng)
     THEN [lat |-> lat.v, lng |-> lng.v]
     ELSE IF m # Null /\ IsFinite(mlat) /\ IsFinite(mlng)
          THEN [lat |-> mlat.v, lng |-> mlng.v]
     ELSE Null

parseLatLngString(s) ==
  IF ~Truthy(s) \/ s.t # "string" THEN Null
  ELSE CASE s.c = "coord" -> [lat |-> s.lat, lng |-> s.lng]
         [] s.c = "chars" -> parseLatLngChars(s.cs)
         [] s.c \in {"space", "text", "padded"} -> Null

latE7ToNum(v) ==
  LET n == ToNumber(v)
  IN IF ~IsFinite(n) THEN Null ELSE n

\* new Date(ms) is valid only for |ms| <= 8.64e15, that is 100000000 days
parseDateDual(isoString, msString) ==
  LET d1 == IF isoString.t = "string" THEN DateParse(isoString) ELSE NaN
      ms == ToNumber(msString)
  IN IF d1.t = "date" THEN d1
     ELSE IF /\ msString.t \in {"string", "number"}
             /\ IsFinite(ms)
             /\ ms.v \div HoursPerDay >= 0 - 100000000
             /\ \/ ms.v \div HoursPerDay < 100000000
                \/ /\ ms.v \div HoursPerDay = 100000000
                   /\ ms.v % HoursPerDay = 0
          THEN DateOf(ms.v)
     ELSE Null

----------------------------------------------------------------------------
(* Format parsers *)

\* lat != null && lng != null ? {lat, lng} : nothing
PointSeq(lat, lng) ==
  IF lat.t # "null" /\ lng.t # "null" THEN <<[lat |-> lat.v, lng |-> lng.v]>>
  ELSE <<>>

Item(kind, start, end, point, path, title) ==
  [kind |-> kind, start |-> start, end |-> end, point |-> point,
   path |-> path, title |-> title]

\* c.trim()
Trim(c) ==
  IF c.c = "space" THEN EmptyStr
  ELSE IF c.c = "padded" THEN TextStr(c.s)
  ELSE IF c.c # "chars" THEN c
  ELSE LET black == {i \in 1..Len(c.cs) : c.cs[i] # " "}
       IN IF black = {} THEN EmptyStr
          ELSE Chars(SubSeq(c.cs, Least(black), Greatest(black)))

RECURSIVE pickFirstString(_)
\* the candidates as a sequence
pickFirstString(candidates) ==
  IF Len(candidates) = 0 THEN EmptyStr
  ELSE IF Head(candidates).t = "string" /\ Trim(Head(candidates)).c # "empty"
       THEN Trim(Head(candidates))
  ELSE pickFirstString(Tail(candidates))

\* (v && String(v)) || fallback
StringOr(v, fallback) ==
  IF Truthy(v) /\ Truthy(String(v)) THEN String(v) ELSE fallback

\* one waypoint of seg.waypointPath.waypoints
Waypoint(p) == PointSeq(latE7ToNum(Get(p, "latE7")), latE7ToNum(Get(p, "lngE7")))

RECURSIVE Waypoints(_)
\* for(const p of wps)
Waypoints(wps) ==
  IF Len(wps) = 0 THEN <<>> ELSE Waypoint(Head(wps)) \o Waypoints(Tail(wps))

\* the activitySegment part of one element of timelineObjects
ActivitySegmentItems(obj) ==
  IF ~(Truthy(obj) /\ Truthy(Get(obj, "activitySegment"))) THEN <<>>
  ELSE
    LET seg == Get(obj, "activitySegment")
        dur == IF Truthy(Get(seg, "duration")) THEN Get(seg, "duration")
               ELSE Obj(<<>>)
        start == parseDateDual(Get(dur, "startTimestamp"),
                               Get(dur, "startTimestampMs"))
        end == parseDateDual(Get(dur, "endTimestamp"),
                             Get(dur, "endTimestampMs"))
        wps == Get(Get(seg, "waypointPath"), "waypoints")
        path0 == IF wps.t = "array" THEN Waypoints(wps.v) ELSE <<>>
        sLoc == Get(seg, "startLocation")
        eLoc == Get(seg, "endLocation")
        path == IF Len(path0) = 0
                THEN PointSeq(latE7ToNum(Get(sLoc, "latitudeE7")),
                              latE7ToNum(Get(sLoc, "longitudeE7")))
                     \o PointSeq(latE7ToNum(Get(eLoc, "latitudeE7")),
                                 latE7ToNum(Get(eLoc, "longitudeE7")))
                ELSE path0
        activityType == StringOr(Get(seg, "activityType"), Null)
        title == IF Truthy(activityType) THEN TitleCase(activityType)
                 ELSE TextStr("app.js:161")
    IN IF start.t = "date"
       THEN <<Item("activity", start, end, Null, path, title)>>
       ELSE <<>>

\* the placeVisit part of one element of timelineObjects
PlaceVisitItems(obj) ==
  IF ~(Truthy(obj) /\ Truthy(Get(obj, "placeVisit"))) THEN <<>>
  ELSE
    LET v == Get(obj, "placeVisit")
        dur == IF Truthy(Get(v, "duration")) THEN Get(v, "duration")
               ELSE Obj(<<>>)
        start == parseDateDual(Get(dur, "startTimestamp"),
                               Get(dur, "startTimestampMs"))
        end == parseDateDual(Get(dur, "endTimestamp"),
                             Get(dur, "endTimestampMs"))
        loc == IF Truthy(Get(v, "location")) THEN Get(v, "location")
               ELSE Obj(<<>>)
        pt == PointSeq(latE7ToNum(Get(loc, "latitudeE7")),
                       latE7ToNum(Get(loc, "longitudeE7")))
        name == StringOr(Get(loc, "name"), TextStr("app.js:215"))
    IN IF start.t = "date"
       THEN <<Item("visit", start, end, IF Len(pt) = 1 THEN pt[1] ELSE Null,
                   <<>>, name)>>
       ELSE <<>>

TimelineObjectItems(obj) == ActivitySegmentItems(obj) \o PlaceVisitItems(obj)

RECURSIVE parseTimelineObjects(_)
parseTimelineObjects(timelineObjects) ==
  IF Len(timelineObjects) = 0 THEN <<>>
  ELSE TimelineObjectItems(Head(timelineObjects))
       \o parseTimelineObjects(Tail(timelineObjects))

\* new Date(s) kept only if s is a string and the Date is valid
ValidDateOrNull(s) ==
  IF s.t = "string" /\ DateParse(s).t = "date" THEN DateParse(s) ELSE Null

\* one point of seg.timelinePath
TimelinePoint(p) ==
  LET pt == parseLatLngString(Get(p, "point"))
  IN IF pt = Null THEN <<>> ELSE <<pt>>

RECURSIVE TimelinePointsReversed(_)
\* the loop with path.unshift(pt) in place of path.push(pt)
TimelinePointsReversed(tp) ==
  IF Len(tp) = 0 THEN <<>>
  ELSE TimelinePointsReversed(Tail(tp)) \o TimelinePoint(Head(tp))

RECURSIVE TimelinePoints(_)
\* for(const p of seg.timelinePath)
TimelinePoints(tp) ==
  IF Len(tp) = 0 THEN <<>>
  ELSE TimelinePoint(Head(tp)) \o TimelinePoints(Tail(tp))

\* one element of semanticSegments
SemanticSegmentItems(seg) ==
  LET start == ValidDateOrNull(Get(seg, "startTime"))
      end == ValidDateOrNull(Get(seg, "endTime"))
  IN IF start.t # "date" THEN <<>>
     ELSE IF Truthy(Get(seg, "visit")) THEN
       LET top == IF Truthy(Get(Get(seg, "visit"), "topCandidate"))
                  THEN Get(Get(seg, "visit"), "topCandidate") ELSE Obj(<<>>)
           pl == Get(top, "placeLocation")
           placeLoc == IF Truthy(pl) THEN pl
                       ELSE IF Truthy(Get(top, "placeLocationLatLng"))
                            THEN Get(top, "placeLocationLatLng")
                       ELSE Get(pl, "latLng")
           latLngStr == IF Get(pl, "latLng").t = "string" THEN Get(pl, "latLng")
                        ELSE IF pl.t = "string" THEN pl
                        ELSE IF placeLoc.t = "string" THEN placeLoc
                        ELSE Null
           name == pickFirstString(<<Get(top, "placeName"), Get(top, "name"),
                                     Get(top, "placeId"),
                                     Get(top, "semanticType"),
                                     Get(Get(Get(seg, "visit"),
                                             "topCandidate"), "semanticType"),
                                     TextStr("Visit")>>)
       IN <<Item("visit", start, end, parseLatLngString(latLngStr), <<>>,
                 name)>>
     ELSE IF Truthy(Get(seg, "activity")) THEN
       LET act == Get(seg, "activity")
           startPt == parseLatLngString(Get(Get(act, "start"), "latLng"))
           endPt == parseLatLngString(Get(Get(act, "end"), "latLng"))
           tp == Get(seg, "timelinePath")
           path0 == IF tp.t = "array" THEN TimelinePoints(tp.v) ELSE <<>>
           path == IF Len(path0) = 0
                   THEN (IF startPt = Null THEN <<>> ELSE <<startPt>>)
                        \o (IF endPt = Null THEN <<>> ELSE <<endPt>>)
                   ELSE path0
           top == IF Truthy(Get(act, "topCandidate"))
                  THEN Get(act, "topCandidate") ELSE Obj(<<>>)
           type == pickFirstString(<<Get(top, "type"), Get(act, "type"),
                                     TextStr("ACTIVITY")>>)
           title == IF Truthy(type) THEN TitleCase(type)
                    ELSE TextStr("app.js:161")  \* line 298, the same text
       IN <<Item("activity", start, end, Null, path, title)>>
     ELSE <<>>

RECURSIVE parseSemanticSegments(_)
parseSemanticSegments(semanticSegments) ==
  IF Len(semanticSegments) = 0 THEN <<>>
  ELSE SemanticSegmentItems(Head(semanticSegments))
       \o parseSemanticSegments(Tail(semanticSegments))

\* one element of locations
LocationItems(loc) ==
  LET ms == Coalesce(Get(loc, "timestampMs"),
              Coalesce(Get(loc, "timestampMS"),
                Coalesce(Get(loc, "timestamp"), Null)))
      t == parseDateDual(Null, ms)
      lat == latE7ToNum(Get(loc, "latitudeE7"))
      lng == latE7ToNum(Get(loc, "longitudeE7"))
  IN IF t.t # "date" THEN <<>>
     ELSE IF lat.t = "null" \/ lng.t = "null" THEN <<>>
     ELSE <<Item("rawpoint", t, Null, [lat |-> lat.v, lng |-> lng.v], <<>>,
                 TextStr("Location point"))>>

RECURSIVE parseRecordsLocations(_)
parseRecordsLocations(locations) ==
  IF Len(locations) = 0 THEN <<>>
  ELSE LocationItems(Head(locations)) \o parseRecordsLocations(Tail(locations))

\* Number(v), String(v) and `${v}` throw a TypeError where v cannot be
\* converted to a primitive: an object whose own property toString is not
\* callable (no value of a JSON document is callable), or an array that
\* holds such an object
RECURSIVE CoercionThrows(_)
CoercionThrows(v) ==
  CASE v.t = "object" -> "toString" \in DOMAIN v.f
    [] v.t = "array" -> \E i \in 1..Len(v.v) : CoercionThrows(v.v[i])
    [] OTHER -> FALSE

\* the result of a call that ended in a TypeError
Thrown == [t |-> "thrown"]

\* the activitySegment part of one element of timelineObjects throws
ActivitySegmentThrows(obj) ==
  /\ Truthy(obj) /\ Truthy(Get(obj, "activitySegment"))
  /\ LET seg == Get(obj, "activitySegment")
         wps == Get(Get(seg, "waypointPath"), "waypoints")
         sLoc == Get(seg, "startLocation")
         eLoc == Get(seg, "endLocation")
     IN \/ Truthy(Get(seg, "activityType"))
           /\ CoercionThrows(Get(seg, "activityType"))
        \/ Get(seg, "distance").t \notin {"undefined", "null"}
           /\ CoercionThrows(Get(seg, "distance"))
        \/ wps.t = "array"
           /\ \E i \in 1..Len(wps.v) :
                \/ CoercionThrows(Get(wps.v[i], "latE7"))
                \/ CoercionThrows(Get(wps.v[i], "lngE7"))
        \/ CoercionThrows(Get(sLoc, "latitudeE7"))
        \/ CoercionThrows(Get(sLoc, "longitudeE7"))
        \/ CoercionThrows(Get(eLoc, "latitudeE7"))
        \/ CoercionThrows(Get(eLoc, "longitudeE7"))

\* the placeVisit part of one element of timelineObjects throws
PlaceVisitThrows(obj) ==
  /\ Truthy(obj) /\ Truthy(Get(obj, "placeVisit"))
  /\ LET v == Get(obj, "placeVisit")
         loc == IF Truthy(Get(v, "location")) THEN Get(v, "location")
                ELSE Obj(<<>>)
     IN \/ Truthy(Get(loc, "name")) /\ CoercionThrows(Get(loc, "name"))
        \/ Truthy(Get(loc, "address")) /\ CoercionThrows(Get(loc, "address"))
        \/ CoercionThrows(Get(loc, "latitudeE7"))
        \/ CoercionThrows(Get(loc, "longitudeE7"))

TimelineObjectThrows(obj) ==
  ActivitySegmentThrows(obj) \/ PlaceVisitThrows(obj)

\* parseTimelineObjects(timelineObjects) as a call: its items, or Thrown
parseTimelineObjectsCall(timelineObjects) ==
  IF \E i \in 1..Len(timelineObjects) :
       TimelineObjectThrows(timelineObjects[i])
  THEN Thrown
  ELSE Arr(parseTimelineObjects(timelineObjects))

\* one element of semanticSegments throws
SemanticSegmentThrows(seg) ==
  /\ ValidDateOrNull(Get(seg, "startTime")).t = "date"
  /\ IF Truthy(Get(seg, "visit"))
     THEN LET h == Get(Get(seg, "visit"), "hierarchyLevel")
          IN h.t \notin {"undefined", "null"} /\ CoercionThrows(h)
     ELSE /\ Truthy(Get(seg, "activity"))
          /\ LET dm == Get(Get(seg, "activity"), "distanceMeters")
             IN dm.t \notin {"undefined", "null"} /\ CoercionThrows(dm)

\* parseSemanticSegments(semanticSegments) as a call
parseSemanticSegmentsCall(semanticSegments) ==
  IF \E i \in 1..Len(semanticSegments) :
       SemanticSegmentThrows(semanticSegments[i])
  THEN Thrown
  ELSE Arr(parseSemanticSegments(semanticSegments))

\* one element of locations throws
LocationThrows(loc) ==
  /\ parseDateDual(Null, Coalesce(Get(loc, "timestampMs"),
                      Coalesce(Get(loc, "timestampMS"),
                        Coalesce(Get(loc, "timestamp"), Null)))).t = "date"
  /\ \/ CoercionThrows(Get(loc, "latitudeE7"))
     \/ CoercionThrows(Get(loc, "longitudeE7"))
     \/ /\ Len(LocationItems(loc)) = 1
        /\ CoercionThrows(Get(loc, "accuracy"))

\* parseRecordsLocations(locations) as a call
parseRecordsLocationsCall(locations) ==
  IF \E i \in 1..Len(locations) : LocationThrows(locations[i])
  THEN Thrown
  ELSE Arr(parseRecordsLocations(locations))

\* json && Array.isArray(json[key])
HasArray(json, key) == Truthy(json) /\ Get(json, key).t = "array"

\* return { items: <the parser's items>, detectedFormat }, unless the
\* parser threw
Parsed(result, format) ==
  IF result = Thrown THEN Thrown
  ELSE [items |-> result.v, detectedFormat |-> format]

\* the dispatcher; a TypeError of the parser it calls leaves the call
parseAnyGoogleTimeline(json) ==
  IF HasArray(json, "timelineObjects")
  THEN Parsed(parseTimelineObjectsCall(Get(json, "timelineObjects").v),
              "timelineObjects")
  ELSE IF HasArray(json, "semanticSegments")
  THEN Parsed(parseSemanticSegmentsCall(Get(json, "semanticSegments").v),
              "semanticSegments")
  ELSE IF HasArray(json, "locations")
  THEN Parsed(parseRecordsLocationsCall(Get(json, "locations").v),
              "recordsLocations")
  ELSE [items |-> <<>>, detectedFormat |-> "unknown"]

----------------------------------------------------------------------------
(* Day index and navigator *)

\* state.dayKeySet after the loop of rebuildDays
DayKeysOf(its) == {dayKey(its[i].start) : i \in DOMAIN its}

RECURSIVE SortKeys(_)
\* Array.from(set).sort((a,b)=>a-b)
SortKeys(S) ==
  IF S = {} THEN <<>>
  ELSE LET lo == CHOOSE k \in S : \A j \in S : k <= j
       IN <<lo>> \o SortKeys(S \ {lo})

\* the Date rebuilt from a packed key
KeyToDate(k) ==
  LET y == k \div 10000
      m == (JsRem(k, 10000) \div 100) - 1
      d == JsRem(k, 100)
  IN NewDate(y, m, d)

SortedDaysOf(keys) ==
  LET ks == SortKeys(keys)
  IN [i \in 1..Len(ks) |-> KeyToDate(ks[i])]

\* days.length ? days[0] : null
FirstOrNull(days) == IF Len(days) > 0 THEN days[1] ELSE Null

RECURSIVE InsertByStart(_, _)
\* it placed after every element whose start is not later
InsertByStart(sorted, it) ==
  IF Len(sorted) = 0 THEN <<it>>
  ELSE IF getTime(Head(sorted).start) <= getTime(it.start)
       THEN <<Head(sorted)>> \o InsertByStart(Tail(sorted), it)
       ELSE <<it>> \o sorted

RECURSIVE SortByStart(_)
\* its.sort((a,b)=>a.start.getTime()-b.start.getTime()), a stable sort
SortByStart(its) ==
  IF Len(its) = 0 THEN <<>>
  ELSE InsertByStart(SortByStart(SubSeq(its, 1, Len(its) - 1)), its[Len(its)])

\* index (from 0) of the first day with the key of sel, or -1
currentDayIndex(sel, days) ==
  IF ~Truthy(sel) THEN 0 - 1
  ELSE LET hits == {i \in 1..Len(days) : dayKey(days[i]) = dayKey(sel)}
       IN IF hits = {} THEN 0 - 1
          ELSE (CHOOSE i \in hits : \A j \in hits : i <= j) - 1

\* $("prevBtn").disabled as updateNavButtons sets it
PrevDisabledOf(sel, days) ==
  LET idx == currentDayIndex(sel, days)
  IN Bool(~(Len(days) > 0) \/ idx <= 0)

\* $("nextBtn").disabled as updateNavButtons sets it
NextDisabledOf(sel, days) ==
  LET idx == currentDayIndex(sel, days)
  IN Bool(~(Len(days) > 0) \/ idx < 0 \/ idx >= Len(days) - 1)

\* the cells renderCalendar gives a click listener
CalendarCells(anchor, days, keys) ==
  IF ~Truthy(anchor) \/ Len(days) = 0 THEN {}
  ELSE LET y == getFullYear(anchor)
           m == getMonth(anchor)
           daysInMonth == getDate(NewDate(y, m + 1, 0))
       IN {NewDate(y, m, day) : day \in
             {dd \in 1..daysInMonth : dayKey(NewDate(y, m, dd)) \in keys}}

\* itemsForSelectedDay()
itemsForSelectedDay(its, sel) ==
  IF ~Truthy(sel) THEN <<>>
  ELSE LET s == startOfDay(sel)
           e == NewDate(getFullYear(s), getMonth(s), getDate(s) + 1)
           InDay(it) == getTime(it.start) >= getTime(s)
                        /\ getTime(it.start) < getTime(e)
       IN SortByStart(SelectSeq(its, InDay))

\* parsed.items.filter(it=>it.start && !isNaN(it.start.getTime()))
ValidStart(it) == it.start.t = "date"

----------------------------------------------------------------------------
(* Inputs *)

MaxPending == 2
MaxItems == 3
MaxLocs == 2
MaxPath == 3
MaxRecords == 3

\* the instant y-m-d h:00
At(y, m, d, h) == DaysFromCivil(y, m, d) * HoursPerDay + h

Instants ==
  {At(2023, 5, 1, 10), At(2023, 5, 1, 22), At(2023, 5, 2, 1),
   At(2023, 6, 15, 8), At(1950, 5, 1, 10), At(50, 5, 1, 10)}

LatE7 == 351234567
LngE7 == 1391234567

\* a value that cannot be converted to a primitive
Unconvertible == Obj([toString |-> Num(1)])

\* a well-formed element of locations at instant h
Loc(h) ==
  Obj([timestampMs |-> DecStr(h), latitudeE7 |-> Num(LatE7),
       longitudeE7 |-> Num(LngE7)])

\* a well-formed visit element of semanticSegments
SegVisit(h) ==
  Obj([startTime |-> IsoStr(h), endTime |-> IsoStr(h + 1),
       visit |-> Obj([topCandidate |->
         Obj([placeLocation |-> Obj([latLng |-> CoordStr(LatE7, LngE7)]),
              placeName |-> PaddedStr("Home")])])])

\* a well-formed activity element of semanticSegments
SegActivity(h) ==
  Obj([startTime |-> IsoStr(h),
       activity |-> Obj([type |-> PaddedStr("WALKING"),
                         start |-> Obj([latLng |-> CoordStr(LatE7, LngE7)]),
                         end |-> Obj([latLng |-> CoordStr(LatE7, LngE7)])])])

\* a well-formed placeVisit element of timelineObjects
ObjVisit(h) ==
  Obj([placeVisit |->
    Obj([duration |-> Obj([startTimestampMs |-> DecStr(h)]),
         location |-> Obj([latitudeE7 |-> Num(LatE7),
                           longitudeE7 |-> Num(LngE7),
                           name |-> Num(7)])])])

\* a well-formed activitySegment element of timelineObjects
ObjActivity(h) ==
  Obj([activitySegment |->
    Obj([duration |-> Obj([startTimestamp |-> IsoStr(h)]),
         activityType |-> TextStr("IN_BUS"),
         startLocation |-> Obj([latitudeE7 |-> Num(LatE7),
                                longitudeE7 |-> Num(LngE7)]),
         endLocation |-> Obj([latitudeE7 |-> Num(LatE7),
                              longitudeE7 |-> Num(LngE7)])])])

LocationsDoc(hs) == Obj([locations |-> Arr([i \in DOMAIN hs |-> Loc(hs[i])])])

\* the documents of the application runs
AppJson ==
  {Null, Obj([foo |-> Num(1)]),
        LocationsDoc(<<At(2023, 5, 1, 22), At(2023, 5, 1, 10)>>),
        LocationsDoc(<<At(2023, 6, 15, 8), At(2023, 5, 2, 1),
                       At(2023, 5, 1, 10)>>),
        LocationsDoc(<<At(50, 5, 1, 10)>>),
        Obj([locations |->
               Arr(<<Loc(At(2023, 5, 1, 10)),
                     Obj([timestampMs |-> DecStr(At(2023, 5, 1, 22)),
                          latitudeE7 |-> Unconvertible,
                          longitudeE7 |-> Num(LngE7)])>>)]),
        Obj([semanticSegments |->
               Arr(<<SegActivity(At(2023, 5, 2, 1)),
                     SegVisit(At(2023, 5, 1, 10))>>)]),
        Obj([timelineObjects |->
               Arr(<<ObjVisit(At(2023, 5, 2, 1)),
                     ObjActivity(At(2023, 5, 1, 22))>>)])}

\* a file text: the text of a JSON value, or text JSON.parse rejects
JsonText(json) == [valid |-> TRUE, json |-> json]
BadText == [valid |-> FALSE, json |-> Undef]

AppTexts == {BadText} \cup {JsonText(j) : j \in AppJson}

----------------------------------------------------------------------------
(* The application *)

(* The service worker of src/sw.js.  A cache name is the sequence of the   *)
(* pieces it is concatenated from, so that startsWith is a prefix test.    *)

\* the scopes of two copies of the application served by one origin
Scopes == {"https://host/a/", "https://host/b/"}

PRECACHE == <<"timeline-trace-local-v", "2">>

\* `${PRECACHE}::${self.registration.scope}`
cacheName(scope) == PRECACHE \o <<"::", scope>>

\* the cache name of the previous release of the worker
OlderCacheName(scope) == <<"timeline-trace-local-v", "1", "::", scope>>

\* k.startsWith(prefix)
StartsWith(k, prefix) ==
  Len(k) >= Len(prefix) /\ SubSeq(k, 1, Len(prefix)) = prefix

\* no worker registered yet.  A worker has its phase, the keys that
\* caches.keys() gave its activate listener, and the caches.delete(k) calls
\* it has made that the storage has not performed yet
WorkerInit ==
  /\ caches = {}
  /\ workers = [s \in Scopes |->
                 [phase |-> "parsed", keys |-> {}, deletes |-> {}]]

\* install, up to: const cache = await caches.open(cacheName())
InstallOpen(scope) ==
  /\ workers[scope].phase = "parsed"
  /\ caches' = caches \cup {cacheName(scope)}
  /\ workers' = [workers EXCEPT ![scope].phase = "installing"]
  /\ UNCHANGED appVars
  /\ UNCHANGED fnVars

\* install, cache.addAll(APP_SHELL) fulfilled: self.skipWaiting()
InstallAddAll(scope) ==
  /\ workers[scope].phase = "installing"
  /\ workers' = [workers EXCEPT ![scope].phase = "installed"]
  /\ UNCHANGED caches
  /\ UNCHANGED appVars
  /\ UNCHANGED fnVars

\* install, cache.addAll(APP_SHELL) rejected (a URL of the shell cannot be
\* fetched): the promise given to waitUntil rejects, skipWaiting() is not
\* called, the cache stays
InstallReject(scope) ==
  /\ workers[scope].phase = "installing"
  /\ workers' = [workers EXCEPT ![scope].phase = "install failed"]
  /\ UNCHANGED caches
  /\ UNCHANGED appVars
  /\ UNCHANGED fnVars

\* activate, up to: const keys = await caches.keys()
ActivateKeys(scope) ==
  /\ workers[scope].phase = "installed"
  /\ workers' = [workers EXCEPT ![scope] = [phase |-> "activating",
                                             keys |-> caches,
                                             deletes |-> {}]]
  /\ UNCHANGED caches
  /\ UNCHANGED appVars
  /\ UNCHANGED fnVars

\* keys.filter((k) => k.startsWith(PRECACHE) && k !== keep)
StaleKeys(keys, keep) == {k \in keys : StartsWith(k, PRECACHE) /\ k # keep}

\* activate resumed with keys: caches.delete(k) is called for the filtered
\* keys and the listener waits at await Promise.all(...)
ActivateFilter(scope) ==
  /\ workers[scope].phase = "activating"
  /\ workers' = [workers EXCEPT
                   ![scope].phase = "deleting",
                   ![scope].deletes =
                     StaleKeys(workers[scope].keys, cacheName(scope))]
  /\ UNCHANGED caches
  /\ UNCHANGED appVars
  /\ UNCHANGED fnVars

\* the storage performs one caches.delete(k) of the activate listener
ActivateDelete(scope, k) ==
  /\ workers[scope].phase = "deleting"
  /\ k \in workers[scope].deletes
  /\ caches' = caches \ {k}
  /\ workers' = [workers EXCEPT ![scope].deletes = @ \ {k}]
  /\ UNCHANGED appVars
  /\ UNCHANGED fnVars

\* activate after await Promise.all(...): self.clients.claim()
ActivateClaim(scope) ==
  /\ workers[scope].phase = "deleting"
  /\ workers[scope].deletes = {}
  /\ workers' = [workers EXCEPT ![scope] = [phase |-> "activated",
                                             keys |-> {}, deletes |-> {}]]
  /\ UNCHANGED caches
  /\ UNCHANGED appVars
  /\ UNCHANGED fnVars

\* fetch of a same-origin request in scope: caches.open(cacheName())
\* creates the cache if it is gone
Fetch(scope) ==
  /\ workers[scope].phase = "activated"
  /\ caches' = caches \cup {cacheName(scope)}
  /\ UNCHANGED workers
  /\ UNCHANGED appVars
  /\ UNCHANGED fnVars

----------------------------------------------------------------------------
(* The page of src/app.js *)

AppInit ==
  /\ items = <<>>
  /\ sortedDays = <<>>
  /\ dayKeySet = {}
  /\ selectedDay = Null
  /\ detectedFormat = "unknown"
  /\ monthAnchor = Null
  /\ prevDisabled = Bool(TRUE)
  /\ nextDisabled = Bool(TRUE)
  /\ cells = {}
  /\ pending = EmptyBag
  /\ toast = EmptyStr

Init == AppInit /\ WorkerInit /\ input = Undef /\ output = Undef

\* renderAll(): the calendar listeners and the two buttons
RenderAll ==
  /\ cells' = CalendarCells(monthAnchor', sortedDays', dayKeySet')
  /\ prevDisabled' = PrevDisabledOf(selectedDay', sortedDays')
  /\ nextDisabled' = NextDisabledOf(selectedDay', sortedDays')

\* rebuildDays()
rebuildDays ==
  /\ dayKeySet' = DayKeysOf(items')
  /\ sortedDays' = SortedDaysOf(dayKeySet')
  /\ monthAnchor' = FirstOrNull(sortedDays')
  /\ selectedDay' = FirstOrNull(sortedDays')

\* the load that leaves the format tag of the previous document
LoadParsedStaleFormat(parsed) ==
  IF parsed = Thrown
  THEN UNCHANGED <<items, sortedDays, dayKeySet, selectedDay, detectedFormat,
                   monthAnchor, prevDisabled, nextDisabled, cells, toast>>
  ELSE /\ items' = SortByStart(SelectSeq(parsed.items, ValidStart))
       /\ UNCHANGED detectedFormat
       /\ rebuildDays
       /\ toast' = IF Len(items') = 0 THEN TextStr("No supported data found")
                   ELSE TextStr("Loaded")
       /\ RenderAll

\* onFileSelected from the call of parseAnyGoogleTimeline on, parsed being
\* the outcome of that call: its TypeError is not caught and ends
\* onFileSelected before anything is assigned or shown
LoadParsed(parsed) ==
  IF parsed = Thrown
  THEN UNCHANGED <<items, sortedDays, dayKeySet, selectedDay, detectedFormat,
                   monthAnchor, prevDisabled, nextDisabled, cells, toast>>
  ELSE /\ items' = SortByStart(SelectSeq(parsed.items, ValidStart))
       /\ detectedFormat' = parsed.detectedFormat
       /\ rebuildDays
       /\ toast' = IF Len(items') = 0 THEN TextStr("No supported data found")
                   ELSE TextStr("Loaded")
       /\ RenderAll

\* the change listener up to the await of the file read
SelectFile(text) ==
  /\ BagCardinality(pending) < MaxPending
  /\ pending' = pending (+) SetToBag({text})
  /\ UNCHANGED fnVars
  /\ UNCHANGED swVars
  /\ UNCHANGED <<items, sortedDays, dayKeySet, selectedDay, detectedFormat,
                 monthAnchor, prevDisabled, nextDisabled, cells, toast>>

\* the completion that treats a JSON.parse failure as an empty document
ReadCompleteNoCatch(text) ==
  /\ BagIn(text, pending)
  /\ pending' = pending (-) SetToBag({text})
  /\ UNCHANGED fnVars
  /\ UNCHANGED swVars
  /\ LoadParsed(IF text.valid THEN parseAnyGoogleTimeline(text.json)
                ELSE [items |-> <<>>, detectedFormat |-> "unknown"])

\* r.onload of a read in flight and the rest of onFileSelected
ReadComplete(text) ==
  /\ BagIn(text, pending)
  /\ pending' = pending (-) SetToBag({text})
  /\ UNCHANGED fnVars
  /\ UNCHANGED swVars
  /\ IF ~text.valid
     THEN /\ toast' = TextStr("JSON parse error")
          /\ UNCHANGED <<items, sortedDays, dayKeySet, selectedDay,
                         detectedFormat, monthAnchor, prevDisabled,
                         nextDisabled, cells>>
     ELSE LoadParsed(parseAnyGoogleTimeline(text.json))

\* r.onerror of a read in flight: onFileSelected rejects
ReadError(text) ==
  /\ BagIn(text, pending)
  /\ pending' = pending (-) SetToBag({text})
  /\ UNCHANGED fnVars
  /\ UNCHANGED swVars
  /\ UNCHANGED <<items, sortedDays, dayKeySet, selectedDay, detectedFormat,
                 monthAnchor, prevDisabled, nextDisabled, cells, toast>>

\* goPrev without the renderAll() call
goPrevNoRender ==
  LET idx == currentDayIndex(selectedDay, sortedDays)
  IN IF idx > 0
     THEN /\ selectedDay' = sortedDays[idx]
          /\ UNCHANGED <<items, sortedDays, dayKeySet, detectedFormat,
                         monthAnchor, pending, toast, cells, prevDisabled,
                         nextDisabled, input, output, caches, workers>>
     ELSE UNCHANGED vars

goPrev ==
  LET idx == currentDayIndex(selectedDay, sortedDays)
  IN IF idx > 0
     THEN /\ selectedDay' = sortedDays[idx]
          /\ UNCHANGED <<items, sortedDays, dayKeySet, detectedFormat,
                         monthAnchor, pending, toast, input, output, caches, workers>>
          /\ RenderAll
     ELSE UNCHANGED vars

goNext ==
  LET idx == currentDayIndex(selectedDay, sortedDays)
  IN IF idx >= 0 /\ idx < Len(sortedDays) - 1
     THEN /\ selectedDay' = sortedDays[idx + 2]
          /\ UNCHANGED <<items, sortedDays, dayKeySet, detectedFormat,
                         monthAnchor, pending, toast, input, output, caches, workers>>
          /\ RenderAll
     ELSE UNCHANGED vars

\* the click listener of an available calendar cell
ClickCell(date) ==
  /\ date \in cells
  /\ selectedDay' = date
  /\ UNCHANGED <<items, sortedDays, dayKeySet, detectedFormat, monthAnchor,
                 pending, toast, input, output, caches, workers>>
  /\ RenderAll

\* the click listener of the list row of item it, the map being built:
\* showToast(it.title, it.subtitle) if the item can be shown on the map.
\* (Before Leaflet is loaded the listener changes nothing.)
focusItemOnMap(it) ==
  IF \/ it.kind = "visit" /\ it.point # Null
     \/ it.kind = "activity" /\ Len(it.path) >= 2
     \/ it.kind = "rawpoint" /\ it.point # Null
  THEN /\ toast' = IF Truthy(it.title) THEN it.title ELSE EmptyStr
       /\ UNCHANGED <<items, sortedDays, dayKeySet, selectedDay,
                      detectedFormat, monthAnchor, prevDisabled,
                      nextDisabled, cells, pending, input, output, caches,
                      workers>>
  ELSE UNCHANGED vars

Next ==
  \/ \E text \in AppTexts : SelectFile(text)
  \/ \E text \in BagToSet(pending) : ReadComplete(text)
  \/ \E text \in BagToSet(pending) : ReadError(text)
  \/ goPrev
  \/ goNext
  \/ \E date \in cells : ClickCell(date)
  \/ \E i \in 1..Len(itemsForSelectedDay(items, selectedDay)) :
       focusItemOnMap(itemsForSelectedDay(items, selectedDay)[i])

Spec == Init /\ [][Next]_vars

----------------------------------------------------------------------------
(* The dispatcher applied to one parsed JSON value *)

\* an object with the keys of f whose value is not undefined
ObjOf(f) == Obj([k \in {j \in DOMAIN f : f[j] # Undef} |-> f[k]])

\* an element every format parser decodes
AnyElement(h) ==
  Obj([timestampMs |-> DecStr(h), latitudeE7 |-> Num(LatE7),
       longitudeE7 |-> Num(LngE7), startTime |-> IsoStr(h),
       visit |-> Obj([topCandidate |-> Obj([placeLocation |->
                   CoordStr(LatE7, LngE7)])]),
       placeVisit |-> Obj([duration |->
                       Obj([startTimestampMs |-> DecStr(h)])])])

\* what a top-level key can hold: nothing, a non-array, an array; the last
\* array holds an element on which every format parser throws
KeyValues ==
  {Undef, Null, Num(1), Obj([length |-> Num(0)]), Arr(<<>>),
   Arr(<<AnyElement(At(2023, 5, 1, 10))>>),
   Arr(<<Obj([timestampMs |-> DecStr(At(2023, 5, 1, 10)),
              latitudeE7 |-> Unconvertible, longitudeE7 |-> Num(LngE7),
              startTime |-> IsoStr(At(2023, 5, 1, 10)),
              visit |-> Obj([hierarchyLevel |-> Unconvertible]),
              placeVisit |-> Obj([location |->
                              Obj([latitudeE7 |-> Unconvertible])])])>>)}

\* JSON values that are not objects, and objects over the three keys
DispatchJson ==
  {Null, Num(5), TextStr("abc"), Arr(<<>>), Bool(TRUE)}
  \cup {ObjOf([timelineObjects |-> a, semanticSegments |-> b,
               locations |-> c, other |-> d]) :
          a \in KeyValues, b \in KeyValues, c \in KeyValues,
          d \in {Undef, Arr(<<>>)}}

InitDispatch == AppInit /\ WorkerInit /\ input \in DispatchJson /\ output = Undef

Dispatch ==
  /\ output = Undef
  /\ output' = parseAnyGoogleTimeline(input)
  /\ UNCHANGED input
  /\ UNCHANGED appVars
  /\ UNCHANGED swVars

SpecDispatch == InitDispatch /\ [][Dispatch]_vars

\* the key is present in the value and holds an array
ArrayValued(json, key) ==
  /\ json.t = "object"
  /\ key \in DOMAIN json.f
  /\ json.f[key].t = "array"

\* C1: for every parsed JSON value the dispatcher returns, and what it
\* returns is the tag of the first of timelineObjects, semanticSegments,
\* locations that is present and array-valued, and "unknown" with no item
\* when none is, whatever else the value holds.
DispatchPriority ==
  output # Undef =>
    /\ output # Thrown
    /\ ArrayValued(input, "timelineObjects")
         => output.detectedFormat = "timelineObjects"
    /\ ~ArrayValued(input, "timelineObjects")
         /\ ArrayValued(input, "semanticSegments")
         => output.detectedFormat = "semanticSegments"
    /\ ~ArrayValued(input, "timelineObjects")
         /\ ~ArrayValued(input, "semanticSegments")
         /\ ArrayValued(input, "locations")
         => output.detectedFormat = "recordsLocations"
    /\ ~ArrayValued(input, "timelineObjects")
         /\ ~ArrayValued(input, "semanticSegments")
         /\ ~ArrayValued(input, "locations")
         => output.detectedFormat = "unknown" /\ output.items = <<>>

----------------------------------------------------------------------------
(* rebuildDays applied to one item list *)

\* the sequences over S of length 0..n
SeqsUpTo(S, n) == UNION {[1..k -> S] : k \in 0..n}

RawPoint(h) ==
  Item("rawpoint", DateOf(h), Null, [lat |-> LatE7, lng |-> LngE7], <<>>,
       TextStr("Location point"))

\* state.dayKeySet and state.sortedDays as rebuildDays leaves them
DayIndexOf(its) ==
  [dayKeySet |-> DayKeysOf(its), sortedDays |-> SortedDaysOf(DayKeysOf(its))]

InitDays ==
  /\ AppInit
  /\ WorkerInit
  /\ input \in SeqsUpTo({RawPoint(h) : h \in Instants}, MaxItems)
  /\ output = Undef

BuildDays ==
  /\ output = Undef
  /\ output' = DayIndexOf(input)
  /\ UNCHANGED input
  /\ UNCHANGED appVars
  /\ UNCHANGED swVars

SpecDays == InitDays /\ [][BuildDays]_vars

\* the calendar day (year, month, day) of a Date
CalendarDay(d) == CivilFromDays(d.v \div HoursPerDay)

\* the calendar days the starts of an item list fall on
CalendarDaysOf(its) == {CalendarDay(its[i].start) : i \in DOMAIN its}

\* C5: for an item list whose starts fall on D distinct calendar days,
\* sortedDays has exactly D entries, strictly ascending, each the calendar
\* day of at least one item, and dayKeySet holds the keys of those D days.
DayIndexOfDistinctDays ==
  output # Undef =>
    LET days == CalendarDaysOf(input)
        sd == output.sortedDays
    IN /\ Len(sd) = Cardinality(days)
       /\ \A i \in 1..Len(sd) - 1 : getTime(sd[i]) < getTime(sd[i + 1])
       /\ \A i \in 1..Len(sd) : CalendarDay(sd[i]) \in days
       /\ output.dayKeySet = {c.y * 10000 + c.m * 100 + c.d : c \in days}

----------------------------------------------------------------------------
(* parseRecordsLocations applied to one locations array *)

\* timestampMs: a numeral string or absent; latitudeE7: number, numeral
\* string, absent, null, "", boolean, text; longitudeE7: number or null
LocationElements ==
  {Null}
  \cup {ObjOf([timestampMs |-> ts, latitudeE7 |-> lat, longitudeE7 |-> lng]) :
          ts \in {DecStr(At(2023, 5, 1, 10)), Undef},
          lat \in {Num(LatE7), DecStr(LatE7), Undef, Null, EmptyStr,
                   Bool(TRUE), TextStr("abc")},
          lng \in {Num(LngE7), Null}}

InitLocations ==
  /\ AppInit
  /\ WorkerInit
  /\ input \in SeqsUpTo(LocationElements, MaxLocs)
  /\ output = Undef

ParseLocations ==
  /\ output = Undef
  /\ output' = Arr(parseRecordsLocations(input))
  /\ UNCHANGED input
  /\ UNCHANGED appVars
  /\ UNCHANGED swVars

SpecLocations == InitLocations /\ [][ParseLocations]_vars

\* a raw value that is numeric and finite: a number or a numeral string
NumericRaw(v) == v.t = "number" \/ (v.t = "string" /\ v.c = "dec")

\* the element has a valid timestamp and two numeric coordinates
DecodableLocation(loc) ==
  /\ NumericRaw(Get(loc, "timestampMs"))
  /\ NumericRaw(Get(loc, "latitudeE7"))
  /\ NumericRaw(Get(loc, "longitudeE7"))

\* C10: parseRecordsLocations emits one item for an element if and only
\* if the element has a valid timestamp and numeric, finite latitudeE7 and
\* longitudeE7; an element whose coordinate is absent, null, "", a boolean
\* or non-numeric text is dropped.
LocationsDropNonNumeric ==
  output # Undef =>
    Len(output.v) = Cardinality({i \in 1..Len(input) :
                                  DecodableLocation(input[i])})

----------------------------------------------------------------------------
(* Claims on the application *)

core == <<items, sortedDays, dayKeySet, selectedDay, detectedFormat>>

\* the keys of the days of sortedDays
KeysOfDays(days) == {dayKey(days[i]) : i \in 1..Len(days)}

\* C2: the selected day is null or a day whose key is in the day index
\* (dayKeySet and sortedDays), and it is null exactly when the index is
\* empty.
SelectedDayInIndex ==
  /\ (selectedDay = Null) <=> (Len(sortedDays) = 0)
  /\ (selectedDay = Null) <=> (dayKeySet = {})
  /\ selectedDay # Null =>
       /\ dayKey(selectedDay) \in dayKeySet
       /\ dayKey(selectedDay) \in KeysOfDays(sortedDays)

\* the text is malformed in the sense of C3: not JSON, or not an object
Malformed(text) == ~text.valid \/ text.json.t # "object"

\* C3 as stated: a load of a malformed document (invalid JSON, or JSON
\* whose value is not an object) leaves items, sortedDays, dayKeySet,
\* selectedDay and detectedFormat as they were.
MalformedLoadKeepsState ==
  [][\A text \in BagToSet(pending) :
       (Malformed(text) /\ ReadComplete(text)) => UNCHANGED core]_vars

\* C3 as amended: a load of text that is not valid JSON reports the parse
\* failure and leaves the state as it was; a load of valid JSON whose value
\* is not an object is an unrecognized document: it empties the item list
\* and the day index, sets the selected day to null and the format to
\* "unknown".
InvalidTextKeepsState ==
  [][\A text \in BagToSet(pending) :
       ReadComplete(text) =>
         /\ ~text.valid =>
              UNCHANGED core /\ toast' = TextStr("JSON parse error")
         /\ (text.valid /\ text.json.t # "object") =>
              /\ items' = <<>>
              /\ sortedDays' = <<>>
              /\ dayKeySet' = {}
              /\ selectedDay' = Null
              /\ detectedFormat' = "unknown"
              /\ toast' = TextStr("No supported data found")]_vars

\* a parse failure was reported after a successful load
InvalidTextKeepsStateWitness ==
  /\ toast = TextStr("JSON parse error")
  /\ Len(items) > 0
  /\ detectedFormat # "unknown"

\* items and detectedFormat are what one load of this value leaves
DerivedFrom(json) ==
  LET parsed == parseAnyGoogleTimeline(json)
  IN /\ parsed # Thrown
     /\ items = SortByStart(SelectSeq(parsed.items, ValidStart))
     /\ detectedFormat = parsed.detectedFormat

\* C4: whenever a callback can run, items, the day index, the selected
\* day and the format all come from one and the same document, also with
\* several reads in flight completing in any order.
AtomicSwap ==
  /\ \E text \in AppTexts : text.valid /\ DerivedFrom(text.json)
  /\ dayKeySet = DayKeysOf(items)
  /\ sortedDays = SortedDaysOf(dayKeySet)
  /\ monthAnchor = FirstOrNull(sortedDays)
  /\ IF Len(sortedDays) = 0 THEN selectedDay = Null
     ELSE selectedDay # Null
          /\ dayKey(selectedDay) \in KeysOfDays(sortedDays)
  /\ cells = CalendarCells(monthAnchor, sortedDays, dayKeySet)

\* a load completed over a previous document while a read is in flight
AtomicSwapWitness ==
  /\ detectedFormat = "semanticSegments"
  /\ Len(items) = 2
  /\ toast = TextStr("Loaded")
  /\ BagCardinality(pending) = MaxPending - 1
  /\ selectedDay = sortedDays[2]

\* the index (from 0) of the selected day in sortedDays, -1 if it has none
SelectedIndex ==
  IF selectedDay = Null THEN 0 - 1
  ELSE LET hits == {i \in 1..Len(sortedDays) :
                      CalendarDay(sortedDays[i]) = CalendarDay(selectedDay)}
       IN IF hits = {} THEN 0 - 1
          ELSE (CHOOSE i \in hits : \A j \in hits : i <= j) - 1

\* goPrev would move / goNext would move
CanPrev == SelectedIndex > 0
CanNext == SelectedIndex >= 0 /\ SelectedIndex < Len(sortedDays) - 1

\* the two buttons agree with the moves
NavFlagsAgree ==
  /\ prevDisabled = Bool(~CanPrev)
  /\ nextDisabled = Bool(~CanNext)
  /\ Len(sortedDays) <= 1 =>
       prevDisabled = Bool(TRUE) /\ nextDisabled = Bool(TRUE)

\* goPrev and goNext move by one position or change nothing
NavSteps ==
  /\ goPrev =>
       /\ selectedDay' = IF CanPrev THEN sortedDays[SelectedIndex]
                         ELSE selectedDay
       /\ UNCHANGED <<items, sortedDays, dayKeySet, detectedFormat>>
  /\ goNext =>
       /\ selectedDay' = IF CanNext THEN sortedDays[SelectedIndex + 2]
                         ELSE selectedDay
       /\ UNCHANGED <<items, sortedDays, dayKeySet, detectedFormat>>

\* C6: with i the index of the selected day, goPrev selects sortedDays[i-1]
\* if i > 0 and goNext selects sortedDays[i+1] if 0 <= i < last, otherwise
\* they change nothing; neither changes items, the day index or the
\* format; the prev and next controls are enabled exactly when the call
\* would move, so both are disabled on an index of size 0 or 1.
NavigatorMoves == [](NavFlagsAgree) /\ [][NavSteps]_vars

\* the middle day of a three-day index is selected: both moves are open
NavigatorMovesWitness ==
  /\ Len(sortedDays) = 3
  /\ selectedDay = sortedDays[2]
  /\ prevDisabled = Bool(FALSE)
  /\ nextDisabled = Bool(FALSE)

\* C7: every day of the day index has a calendar cell whose selection
\* makes it the selected day, whatever its month, and no cell selects a day
\* absent from the index.  (Stated for an index whose keys and days agree.)
EveryIndexDaySelectable ==
  KeysOfDays(sortedDays) = dayKeySet =>
    /\ \A i \in 1..Len(sortedDays) :
         \E c \in cells : dayKey(c) = dayKey(sortedDays[i])
    /\ \A c \in cells : dayKey(c) \in dayKeySet

\* the state a load that parsed as JSON must leave, per C8
Reseeded ==
  /\ IF Len(items) = 0 THEN selectedDay = Null
     ELSE /\ selectedDay # Null
          /\ CalendarDay(selectedDay) = CalendarDay(items[1].start)
          /\ \A i \in 1..Len(sortedDays) :
               getTime(selectedDay) <= getTime(sortedDays[i])
  /\ detectedFormat = "unknown" =>
       items = <<>> /\ sortedDays = <<>> /\ dayKeySet = {}

\* C8: right after every load that parses as JSON the selected day is the
\* earliest day of the new day index, or null if the new item list is
\* empty (an unrecognized document also sets the format to "unknown" and
\* empties the item list and the index), whatever was loaded or selected
\* before.
LoadReseedsNavigator ==
  [][\A text \in BagToSet(pending) :
       (text.valid /\ ReadComplete(text)) => Reseeded']_vars

\* the items itemsForSelectedDay returns for day d
ItemsOfDay(d) == itemsForSelectedDay(items, d)

\* the positions of sortedDays whose day returns the item
DaysReturning(it) ==
  {i \in 1..Len(sortedDays) :
     \E j \in 1..Len(ItemsOfDay(sortedDays[i])) :
       ItemsOfDay(sortedDays[i])[j] = it}

\* C9: itemsForSelectedDay returns nothing when no day is selected and
\* otherwise items of the selected calendar day in ascending order of
\* start; each item of state.items is returned for exactly one day of the
\* day index and every day of the index returns at least one item.
ItemsPartitionedByDay ==
  /\ selectedDay = Null => itemsForSelectedDay(items, selectedDay) = <<>>
  /\ selectedDay # Null =>
       LET got == itemsForSelectedDay(items, selectedDay)
       IN /\ \A j \in 1..Len(got) :
               CalendarDay(got[j].start) = CalendarDay(selectedDay)
          /\ \A j \in 1..Len(got) - 1 :
               getTime(got[j].start) <= getTime(got[j + 1].start)
  /\ \A k \in 1..Len(items) : Cardinality(DaysReturning(items[k])) = 1
  /\ \A i \in 1..Len(sortedDays) : Len(ItemsOfDay(sortedDays[i])) >= 1

----------------------------------------------------------------------------
(* parseSemanticSegments applied to one activity segment *)

\* the coordinate text of the i-th test point
PointText(i) == CoordStr(LatE7 + i, LngE7 + i)

\* the point parseLatLngString decodes from PointText(i)
PointOf(i) == [lat |-> LatE7 + i, lng |-> LngE7 + i]

\* seg.timelinePath: absent or an array of 0..MaxPath elements, each one
\* of two decodable points or a point that does not decode
PathValues ==
  {Undef} \cup
  {Arr(q) : q \in SeqsUpTo({Obj([point |-> PointText(1)]),
                            Obj([point |-> PointText(2)]),
                            Obj([point |-> TextStr("abc")])}, MaxPath)}

\* activity segments whose start and end come with a decodable latLng or
\* without
ActivitySegments ==
  {ObjOf([startTime |-> IsoStr(At(2023, 5, 1, 10)),
          activity |-> Obj([start |-> a, end |-> b]),
          timelinePath |-> tp]) :
     a \in {Obj([latLng |-> PointText(8)]), Obj([foo |-> Num(1)])},
     b \in {Obj([latLng |-> PointText(9)]), Obj([foo |-> Num(1)])},
     tp \in PathValues}

InitSegments ==
  /\ AppInit
  /\ WorkerInit
  /\ input \in ActivitySegments
  /\ output = Undef

ParseSegments ==
  /\ output = Undef
  /\ output' = Arr(parseSemanticSegments(<<input>>))
  /\ UNCHANGED input
  /\ UNCHANGED appVars
  /\ UNCHANGED swVars

SpecSegments == InitSegments /\ [][ParseSegments]_vars

\* the decodable points of seg.timelinePath, in order
DecodablePath(seg) ==
  LET tp == Get(seg, "timelinePath")
      Decodable(p) == Get(p, "point").t = "string"
                      /\ Get(p, "point").c = "coord"
      Decoded(q) == [i \in 1..Len(q) |->
                      [lat |-> q[i].f.point.lat, lng |-> q[i].f.point.lng]]
  IN IF tp.t = "array" THEN Decoded(SelectSeq(tp.v, Decodable)) ELSE <<>>

\* both activity.start.latLng and activity.end.latLng decode
BothEndpoints(seg) ==
  /\ "latLng" \in DOMAIN seg.f.activity.f.start.f
  /\ "latLng" \in DOMAIN seg.f.activity.f.end.f

\* C11 as stated: a timelinePath with fewer than 2 decodable points (0 or
\* 1) and decodable start and end gives the path [start, end]; 2 or more
\* decodable points give exactly those points in order.
PathFallbackBelowTwo ==
  output # Undef =>
    /\ Len(output.v) = 1
    /\ (Len(DecodablePath(input)) < 2 /\ BothEndpoints(input)) =>
         output.v[1].path = <<PointOf(8), PointOf(9)>>
    /\ Len(DecodablePath(input)) >= 2 =>
         output.v[1].path = DecodablePath(input)

\* C11 as amended: a timelinePath with no decodable point and decodable
\* start and end gives the path [start, end]; 1 or more decodable points
\* give exactly those points in order.
PathFallbackWhenEmpty ==
  output # Undef =>
    /\ Len(output.v) = 1
    /\ (Len(DecodablePath(input)) = 0 /\ BothEndpoints(input)) =>
         output.v[1].path = <<PointOf(8), PointOf(9)>>
    /\ Len(DecodablePath(input)) >= 1 =>
         output.v[1].path = DecodablePath(input)

\* one decodable point among undecodable ones, start and end decodable:
\* the path is that single point
PathFallbackWhenEmptyWitness ==
  /\ output # Undef
  /\ BothEndpoints(input)
  /\ Get(input, "timelinePath").t = "array"
  /\ Len(Get(input, "timelinePath").v) = 3
  /\ DecodablePath(input) = <<PointOf(2)>>
  /\ output.v[1].path = <<PointOf(2)>>

----------------------------------------------------------------------------
(* parseLatLngString applied to a coordinate text *)

\* first numerals of a coordinate text
Numerals1 ==
  {<<"3", "5", ".", "1">>, <<"-", "3", "5", ".", "1">>, <<"5">>,
   <<"1", "2">>}

\* second numerals, or none
Numerals2 ==
  {<<"1", "3", "9", ".", "1">>, <<"-", "1", "3", "9", ".", "1">>, <<"9">>,
   <<>>}

\* separators that survive the cleaning
Separators ==
  {<<",">>, <<",", " ">>, <<DegreeSign, ",", " ">>, <<NotSign, InfinitySign, ",">>,
   <<";">>, <<"m">>, <<"-">>, <<DegreeSign, " ">>}

\* separators that the cleaning removes
SoftSeparators == {<<" ">>, <<NotSign, InfinitySign>>}

\* unit suffixes
Suffixes == {<<>>, <<DegreeSign>>, <<"m">>, <<NotSign, InfinitySign>>}

CoordinateTexts ==
  {Chars(a \o sep \o b \o u) :
     a \in Numerals1, sep \in Separators, b \in Numerals2, u \in Suffixes}
  \cup
  {Chars(a \o sep \o b \o u) :
     a \in {n \in Numerals1 : \E i \in 1..Len(n) : n[i] = "."},
     sep \in SoftSeparators, b \in Numerals2, u \in Suffixes}

InitLatLng ==
  /\ AppInit
  /\ WorkerInit
  /\ input \in CoordinateTexts
  /\ output = Undef

ParseLatLng ==
  /\ output = Undef
  /\ output' = parseLatLngString(input)
  /\ UNCHANGED input
  /\ UNCHANGED appVars
  /\ UNCHANGED swVars

SpecLatLng == InitLatLng /\ [][ParseLatLng]_vars

\* the floating-point-looking substrings of text from position i on, each
\* taken whole, in order of occurrence
RECURSIVE FloatsFrom(_, _)
FloatsFrom(text, i) ==
  IF i > Len(text) THEN <<>>
  ELSE IF DigitRun(text, i + Minus(text, i)) = 0 THEN FloatsFrom(text, i + 1)
  ELSE <<SubSeq(text, i, NumeralEnd(text, i))>>
       \o FloatsFrom(text, NumeralEnd(text, i) + 1)

\* the comma-split tier gives no pair of finite numbers
CommaTierFails(text) ==
  \/ Len(SplitComma(text).v) < 2
  \/ ~IsFinite(StringToNumber(SplitComma(text).v[1]))
  \/ ~IsFinite(StringToNumber(SplitComma(text).v[2]))

\* C13: when the comma-split tier fails, the result is the first two
\* floating-point-looking substrings of the cleaned text, in order and each
\* taken whole, as (lat, lng), and null when there are fewer than two.
FallbackFirstTwoFloats ==
  LET text == Cleaned(input.cs)
      floats == FloatsFrom(text, 1)
  IN (output # Undef /\ CommaTierFails(text)) =>
       output = IF Len(floats) >= 2
                THEN [lat |-> StringToNumber(floats[1]).v,
                      lng |-> StringToNumber(floats[2]).v]
                ELSE Null

----------------------------------------------------------------------------
(* The three format parsers applied to arrays with malformed records *)

TimelineObjectRecords ==
  {Null,
   ObjActivity(At(2023, 5, 1, 10)),
   ObjVisit(At(2023, 5, 1, 22)),
   Obj([activitySegment |-> Obj([distance |-> Num(1200)])]),
   Obj([placeVisit |->
     Obj([duration |-> Obj([startTimestampMs |-> DecStr(At(2023, 5, 2, 1))])])]),
   Obj([placeVisit |->
     Obj([duration |-> Obj([startTimestampMs |-> DecStr(At(2023, 5, 2, 1))]),
          location |-> Obj([name |-> Unconvertible])])])}

SemanticSegmentRecords ==
  {Num(5),
   SegVisit(At(2023, 5, 1, 10)),
   SegActivity(At(2023, 5, 1, 22)),
   Obj([visit |-> Obj([hierarchyLevel |-> Num(1)])]),
   Obj([startTime |-> TextStr("abc"), activity |-> Obj([type |-> TextStr("WALKING")])]),
   Obj([startTime |-> IsoStr(At(2023, 5, 2, 1)), visit |-> Infinity(1)]),
   Obj([startTime |-> IsoStr(At(2023, 5, 2, 1)),
        visit |-> Obj([hierarchyLevel |-> Unconvertible])])}

LocationRecords ==
  {Null,
   Loc(At(2023, 5, 1, 10)),
   Loc(At(2023, 5, 1, 22)),
   Obj([latitudeE7 |-> Num(LatE7), longitudeE7 |-> Num(LngE7)]),
   Obj([timestampMs |-> DecStr(At(2023, 5, 2, 1)), longitudeE7 |-> Num(LngE7)]),
   Obj([timestampMs |-> DecStr(At(2023, 5, 2, 1)), latitudeE7 |-> Unconvertible,
        longitudeE7 |-> Num(LngE7)])}

RecordsOf(parser) ==
  CASE parser = "timelineObjects" -> TimelineObjectRecords
    [] parser = "semanticSegments" -> SemanticSegmentRecords
    [] parser = "locations" -> LocationRecords

InitRecords ==
  /\ AppInit
  /\ WorkerInit
  /\ \E parser \in {"timelineObjects", "semanticSegments", "locations"} :
       \E records \in SeqsUpTo(RecordsOf(parser), MaxRecords) :
         input = [parser |-> parser, records |-> records]
  /\ output = Undef

ParseRecords ==
  /\ output = Undef
  /\ output' =
       CASE input.parser = "timelineObjects" ->
              parseTimelineObjectsCall(input.records)
         [] input.parser = "semanticSegments" ->
              parseSemanticSegmentsCall(input.records)
         [] input.parser = "locations" ->
              parseRecordsLocationsCall(input.records)
  /\ UNCHANGED input
  /\ UNCHANGED appVars
  /\ UNCHANGED swVars

SpecRecords == InitRecords /\ [][ParseRecords]_vars

\* the items of one record taken alone, none if the record does not decode
ItemsOfRecord(parser, rec) ==
  CASE parser = "timelineObjects" ->
         IF TimelineObjectThrows(rec) THEN <<>> ELSE TimelineObjectItems(rec)
    [] parser = "semanticSegments" ->
         IF SemanticSegmentThrows(rec) THEN <<>> ELSE SemanticSegmentItems(rec)
    [] parser = "locations" ->
         IF LocationThrows(rec) THEN <<>> ELSE LocationItems(rec)

RECURSIVE ItemsOfRecords(_, _)
ItemsOfRecords(parser, recs) ==
  IF Len(recs) = 0 THEN <<>>
  ELSE ItemsOfRecord(parser, Head(recs)) \o ItemsOfRecords(parser, Tail(recs))

\* C12: for each of the three parsers and every input array, a record that
\* fails to decode drops only that record and never aborts the parse: the
\* parser returns normally, its output is, in input order, exactly the
\* items of the records that decode, whatever malformed records surround
\* them, and every item has a valid start.
RecordFailureDropsOnlyRecord ==
  output # Undef =>
    /\ output.t = "array"
    /\ output.v = ItemsOfRecords(input.parser, input.records)
    /\ \A i \in 1..Len(output.v) : ValidStart(output.v[i])

----------------------------------------------------------------------------
(* Two copies of the service worker on one origin *)

\* the CacheStorage starts with what earlier releases and other
\* applications of the origin left in it
InitWorker ==
  /\ AppInit
  /\ input = Undef
  /\ output = Undef
  /\ caches \in SUBSET ({OlderCacheName(s) : s \in Scopes}
                        \cup {<<"other-pwa-v1">>})
  /\ workers = [s \in Scopes |->
                 [phase |-> "parsed", keys |-> {}, deletes |-> {}]]

NextWorker ==
  \/ \E s \in Scopes : InstallOpen(s)
  \/ \E s \in Scopes : InstallAddAll(s)
  \/ \E s \in Scopes : InstallReject(s)
  \/ \E s \in Scopes : ActivateKeys(s)
  \/ \E s \in Scopes : ActivateFilter(s)
  \/ \E s \in Scopes : \E k \in workers[s].deletes : ActivateDelete(s, k)
  \/ \E s \in Scopes : ActivateClaim(s)
  \/ \E s \in Scopes : Fetch(s)

SpecWorker == InitWorker /\ [][NextWorker]_vars

\* C14: on activate the worker of scope S deletes only caches of scope S
\* under an older version, never a cache that cacheName() builds for a
\* different scope, and after activate (when clients.claim() is reached)
\* no stale-version cache of scope S remains.
ActivateScopeSpecific ==
  [][\A s \in Scopes :
       /\ \A k \in workers[s].deletes :
            ActivateDelete(s, k) =>
              /\ caches \ caches' \subseteq {OlderCacheName(s)}
              /\ \A o \in Scopes \ {s} :
                   cacheName(o) \in caches => cacheName(o) \in caches'
       /\ ActivateClaim(s) => OlderCacheName(s) \notin caches']_vars

====
